---- MODULE Spec2Model ----
(***************************************************************************)
(* A model of genetlink's Resolver (src/src/resolver.rs): the family-id    *)
(* cache, the multicast-groups cache, and the two resolution flows that    *)
(* talk to the netlink control family through a transport handle.          *)
(*                                                                         *)
(* The Resolver is borrowed mutably by a resolution future, so at most one *)
(* call is in flight; a call advances from one await point to the next in  *)
(* one step.  The transport is external: each send_request either fails or *)
(* answers with an arbitrary finite stream of items.                       *)
(***************************************************************************)
EXTENDS Integers, Sequences, FiniteSets, TLC

(***************************************************************************)
(* Bounds of the model.                                                    *)
(***************************************************************************)
\* the most items a response stream yields before it ends
MaxStream == 2

(***************************************************************************)
(* Values.                                                                 *)
(***************************************************************************)
\* the static id of the control family
GENL_ID_CTRL == 16

FamilyNames == {"nlctrl", "devlink"}

FamilyIds == {GENL_ID_CTRL, 26}

GroupNames == {"config", "notify"}

GroupIds == {1, 2}

\* netlink error codes of a NetlinkPayload::Error (ENOENT, EPERM)
ErrorCodes == {-2, -1}

\* HashMap::new()
EmptyMap == [k \in {} |-> 0]

\* HashMap::insert: the entry of key k is added or replaced
MapInsert(m, k, v) == [x \in (DOMAIN m) \cup {k} |-> IF x = k THEN v ELSE m[x]]

\* all sequences over S of length at most n
RECURSIVE SeqsUpTo(_, _)
SeqsUpTo(S, n) ==
    IF n = 0 THEN {<<>>}
    ELSE LET shorter == SeqsUpTo(S, n - 1)
         IN  shorter \cup {Append(s, x) : s \in {t \in shorter : Len(t) = n - 1}, x \in S}

(***************************************************************************)
(* Messages.                                                               *)
(***************************************************************************)
\* McastGrpAttrs::Name(name)
GrpName(n) == [type |-> "Name", name |-> n, id |-> 0]

\* McastGrpAttrs::Id(id)
GrpId(i) == [type |-> "Id", name |-> "", id |-> i]

McastGrpAttrs == {GrpName(n) : n \in GroupNames} \cup {GrpId(i) : i \in GroupIds}

\* GenlCtrlAttrs::FamilyId(id)
FamilyIdAttr(i) == [type |-> "FamilyId", id |-> i, groups |-> <<>>]

\* GenlCtrlAttrs::McastGroups(groups): a list of groups, each a list of McastGrpAttrs
McastGroupsAttr(gs) == [type |-> "McastGroups", id |-> 0, groups |-> gs]

\* Ok(message) with NetlinkPayload::InnerMessage
InnerMessage(nlas) == [kind |-> "InnerMessage", nlas |-> nlas, code |-> 0]

\* Ok(message) with NetlinkPayload::Error
ErrorMessage(c) == [kind |-> "Error", nlas |-> <<>>, code |-> c]

\* Ok(message) with any other payload (Done, Noop, Overrun)
DoneMessage == [kind |-> "Done", nlas |-> <<>>, code |-> 0]

\* Err(e): the stream item is itself an error
DecodeError == [kind |-> "DecodeError", nlas |-> <<>>, code |-> 0]

\* the requests of the two flows
ByName(n) == [attr |-> "FamilyName", name |-> n, id |-> 0]

ById(i) == [attr |-> "FamilyId", name |-> "", id |-> i]

(***************************************************************************)
(* Results.                                                                *)
(***************************************************************************)
NoError == [kind |-> "None", code |-> 0, attr |-> ""]

\* send_request failed
TransportError == [kind |-> "Transport", code |-> 0, attr |-> ""]

\* a stream item Err(e), converted by `?`
DecodeFailure == [kind |-> "Decode", code |-> 0, attr |-> ""]

\* e.into() of a NetlinkPayload::Error
NetlinkError(c) == [kind |-> "NetlinkError", code |-> c, attr |-> ""]

NoMessageReceived == [kind |-> "NoMessageReceived", code |-> 0, attr |-> ""]

AttributeNotFound(a) == [kind |-> "AttributeNotFound", code |-> 0, attr |-> a]

NoResult == [tag |-> "None", id |-> 0, groups |-> EmptyMap, err |-> NoError]

OkId(i) == [tag |-> "OkId", id |-> i, groups |-> EmptyMap, err |-> NoError]

OkGroups(g) == [tag |-> "OkGroups", id |-> 0, groups |-> g, err |-> NoError]

Err(e) == [tag |-> "Err", id |-> 0, groups |-> EmptyMap, err |-> e]

\* what the lookups return: Option<u16>, Option<HashMap<String, u32>>
SomeId(i) == [tag |-> "SomeId", id |-> i, groups |-> EmptyMap, err |-> NoError]

SomeGroups(g) == [tag |-> "SomeGroups", id |-> 0, groups |-> g, err |-> NoError]

NoEntry == [tag |-> "NoEntry", id |-> 0, groups |-> EmptyMap, err |-> NoError]

(***************************************************************************)
(* What the transport may yield.  query_family_id looks only for family-id *)
(* attributes and query_family_multicast_groups only for multicast-groups  *)
(* attributes, so the answers to a by-name request carry one kind of       *)
(* attribute the flow ignores, and so do the answers to a by-id request.   *)
(***************************************************************************)
\* the stream items whose payload messages carry one of the attribute lists
Items(nlaLists) ==
    {InnerMessage(nlas) : nlas \in nlaLists}
        \cup {ErrorMessage(c) : c \in ErrorCodes} \cup {DoneMessage, DecodeError}

\* answers to a by-name request: no attribute, a family id, two of them in either
\* order, and multicast groups alone or before a family id
NameReplyItems ==
    Items({<<>>,
           <<FamilyIdAttr(GENL_ID_CTRL)>>,
           <<FamilyIdAttr(26)>>,
           <<FamilyIdAttr(GENL_ID_CTRL), FamilyIdAttr(26)>>,
           <<FamilyIdAttr(26), FamilyIdAttr(GENL_ID_CTRL)>>,
           <<McastGroupsAttr(<<>>)>>,
           <<McastGroupsAttr(<<>>), FamilyIdAttr(26)>>})

\* answers to a by-id request: no attribute, a complete group, a group without
\* its id, and a family id alone or before a complete group
IdReplyItems ==
    Items({<<>>,
           <<McastGroupsAttr(<<<<GrpName("config"), GrpId(1)>>>>)>>,
           <<McastGroupsAttr(<<<<GrpName("config")>>>>)>>,
           <<FamilyIdAttr(26)>>,
           <<FamilyIdAttr(26), McastGroupsAttr(<<<<GrpName("config"), GrpId(1)>>>>)>>})

\* the groups of at most two attributes: complete ones, in either order of name and
\* id, and ones with only names, only ids or nothing
Groups == SeqsUpTo(McastGrpAttrs, 2)

\* the groups that come in pairs
PairedGroups ==
    {<<GrpName("config"), GrpId(1)>>, <<GrpId(2), GrpName("config")>>,
     <<GrpName("notify"), GrpId(2)>>, <<GrpName("config")>>}

\* answers to a by-id request with their groups in full: one group, or two groups
\* in one multicast-groups attribute or in two
GroupReplyItems ==
    Items({<<McastGroupsAttr(<<g>>)>> : g \in Groups}
            \cup {<<McastGroupsAttr(<<g, h>>)>> : g \in PairedGroups, h \in PairedGroups}
            \cup {<<McastGroupsAttr(<<g>>), McastGroupsAttr(<<h>>)>> :
                     g \in PairedGroups, h \in PairedGroups})

(***************************************************************************)
(* The Resolver's pure code.                                               *)
(***************************************************************************)
None == [some |-> FALSE, val |-> 0]

Some(v) == [some |-> TRUE, val |-> v]

\* a lookup that never finds the entry
CacheGet_Miss(c, family_name) == None

\* self.cache.get(family_name).copied()
CacheGet(c, family_name) ==
    IF family_name \in DOMAIN c THEN Some(c[family_name]) ELSE None

\* self.groups_cache.get(family_name).cloned()
GroupsCacheGet(g, family_name) ==
    IF family_name \in DOMAIN g THEN [some |-> TRUE, val |-> g[family_name]]
    ELSE [some |-> FALSE, val |-> EmptyMap]

\* a search that keeps the last family-id attribute instead of the first
RECURSIVE FindFamilyId_Last(_)
FindFamilyId_Last(nlas) ==
    IF nlas = <<>> THEN None
    ELSE LET later == FindFamilyId_Last(Tail(nlas))
         IN  IF later.some THEN later
             ELSE IF Head(nlas).type = "FamilyId" THEN Some(Head(nlas).id) ELSE None

\* a search that reads the id off the first attribute of a message with a family id
FindFamilyId_Head(nlas) ==
    IF \E i \in 1..Len(nlas) : nlas[i].type = "FamilyId"
    THEN Some(nlas[1].id)
    ELSE None

\* nlas.iter().find_map(FamilyId(id) => Some(id)): the first family-id attribute
RECURSIVE FindFamilyId(_)
FindFamilyId(nlas) ==
    IF nlas = <<>> THEN None
    ELSE IF Head(nlas).type = "FamilyId" THEN Some(Head(nlas).id)
    ELSE FindFamilyId(Tail(nlas))

\* a loop that lets a protocol error fall into the `_ => ()` arm
QfiStep_SwallowError(item) ==
    CASE item.kind = "DecodeError" -> [tag |-> "Err", id |-> 0, err |-> DecodeFailure]
      [] item.kind = "InnerMessage" ->
            LET family_id == FindFamilyId(item.nlas)
            IN  IF family_id.some
                THEN [tag |-> "Ok", id |-> family_id.val, err |-> NoError]
                ELSE [tag |-> "Err", id |-> 0,
                      err |-> AttributeNotFound("CTRL_ATTR_FAMILY_ID")]
      [] OTHER -> [tag |-> "Continue", id |-> 0, err |-> NoError]

\* a loop that takes every message that is no error for a payload message
QfiStep_DoneIsPayload(item) ==
    CASE item.kind = "DecodeError" -> [tag |-> "Err", id |-> 0, err |-> DecodeFailure]
      [] item.kind = "Error" -> [tag |-> "Err", id |-> 0, err |-> NetlinkError(item.code)]
      [] OTHER ->
            LET family_id == FindFamilyId(item.nlas)
            IN  IF family_id.some
                THEN [tag |-> "Ok", id |-> family_id.val, err |-> NoError]
                ELSE [tag |-> "Err", id |-> 0,
                      err |-> AttributeNotFound("CTRL_ATTR_FAMILY_ID")]

\* a search that falls back on the default id: find_map(..).unwrap_or_default()
QfiStep_DefaultId(item) ==
    CASE item.kind = "DecodeError" -> [tag |-> "Err", id |-> 0, err |-> DecodeFailure]
      [] item.kind = "InnerMessage" ->
            LET family_id == FindFamilyId(item.nlas)
            IN  IF family_id.some
                THEN [tag |-> "Ok", id |-> family_id.val, err |-> NoError]
                ELSE [tag |-> "Ok", id |-> 0, err |-> NoError]
      [] item.kind = "Error" -> [tag |-> "Err", id |-> 0, err |-> NetlinkError(item.code)]
      [] OTHER -> [tag |-> "Continue", id |-> 0, err |-> NoError]

\* a loop that goes on to the next item when a payload message has no family id
QfiStep_SkipPayload(item) ==
    CASE item.kind = "DecodeError" -> [tag |-> "Err", id |-> 0, err |-> DecodeFailure]
      [] item.kind = "InnerMessage" ->
            LET family_id == FindFamilyId(item.nlas)
            IN  IF family_id.some
                THEN [tag |-> "Ok", id |-> family_id.val, err |-> NoError]
                ELSE [tag |-> "Continue", id |-> 0, err |-> NoError]
      [] item.kind = "Error" -> [tag |-> "Err", id |-> 0, err |-> NetlinkError(item.code)]
      [] OTHER -> [tag |-> "Continue", id |-> 0, err |-> NoError]

\* one item of the response stream in query_family_id
QfiStep(item) ==
    CASE item.kind = "DecodeError" -> [tag |-> "Err", id |-> 0, err |-> DecodeFailure]
      [] item.kind = "InnerMessage" ->
            LET family_id == FindFamilyId(item.nlas)
            IN  IF family_id.some
                THEN [tag |-> "Ok", id |-> family_id.val, err |-> NoError]
                ELSE [tag |-> "Err", id |-> 0,
                      err |-> AttributeNotFound("CTRL_ATTR_FAMILY_ID")]
      [] item.kind = "Error" -> [tag |-> "Err", id |-> 0, err |-> NetlinkError(item.code)]
      [] OTHER -> [tag |-> "Continue", id |-> 0, err |-> NoError]

\* for group_attr in group: the last name and the last id of the group
RECURSIVE ScanGroup(_, _, _)
ScanGroup(group, group_name, group_id) ==
    IF group = <<>> THEN [name |-> group_name, id |-> group_id]
    ELSE LET group_attr == Head(group)
         IN  IF group_attr.type = "Name"
             THEN ScanGroup(Tail(group), Some(group_attr.name), group_id)
             ELSE ScanGroup(Tail(group), group_name, Some(group_attr.id))

\* an insert that keeps the id a group name already has
InsertGroup_KeepFirst(mc, group) ==
    LET found == ScanGroup(group, None, None)
    IN  IF found.name.some /\ found.id.some /\ found.name.val \notin DOMAIN mc
        THEN MapInsert(mc, found.name.val, found.id.val)
        ELSE mc

\* if let (Some(name), Some(id)) = (group_name, group_id) { mc_groups.insert(name, id) }
InsertGroup(mc, group) ==
    LET found == ScanGroup(group, None, None)
    IN  IF found.name.some /\ found.id.some
        THEN MapInsert(mc, found.name.val, found.id.val)
        ELSE mc

\* for group in groups
RECURSIVE InsertGroups(_, _)
InsertGroups(mc, groups) ==
    IF groups = <<>> THEN mc
    ELSE InsertGroups(InsertGroup(mc, Head(groups)), Tail(groups))

\* for nla in genlmsg.payload.nlas
RECURSIVE CollectGroups(_, _)
CollectGroups(mc, nlas) ==
    IF nlas = <<>> THEN mc
    ELSE IF Head(nlas).type = "McastGroups"
         THEN CollectGroups(InsertGroups(mc, Head(nlas).groups), Tail(nlas))
         ELSE CollectGroups(mc, Tail(nlas))

\* a loop that logs a protocol error and goes on
GroupsStep_SwallowError(mc, item) ==
    CASE item.kind = "DecodeError" -> [tag |-> "Err", mc |-> mc, err |-> DecodeFailure]
      [] item.kind = "InnerMessage" ->
            [tag |-> "Continue", mc |-> CollectGroups(mc, item.nlas), err |-> NoError]
      [] OTHER -> [tag |-> "Continue", mc |-> mc, err |-> NoError]

\* one item of the response stream in query_family_multicast_groups
GroupsStep(mc, item) ==
    CASE item.kind = "DecodeError" -> [tag |-> "Err", mc |-> mc, err |-> DecodeFailure]
      [] item.kind = "InnerMessage" ->
            [tag |-> "Continue", mc |-> CollectGroups(mc, item.nlas), err |-> NoError]
      [] item.kind = "Error" -> [tag |-> "Err", mc |-> mc, err |-> NetlinkError(item.code)]
      [] OTHER -> [tag |-> "Continue", mc |-> mc, err |-> NoError]

\* the message carries a family-id attribute
CarriesFamilyId(item) ==
    /\ item.kind = "InnerMessage"
    /\ \E i \in 1..Len(item.nlas) : item.nlas[i].type = "FamilyId"

\* id is the first family-id attribute of the message
ReportsFamilyId(item, id) ==
    /\ item.kind = "InnerMessage"
    /\ \E i \in 1..Len(item.nlas) :
          /\ item.nlas[i] = FamilyIdAttr(id)
          /\ \A j \in 1..(i - 1) : item.nlas[j].type # "FamilyId"

(***************************************************************************)
(* State.                                                                  *)
(***************************************************************************)
VARIABLES
    cache,          \* Resolver.cache: family name -> family id
    groups_cache,   \* Resolver.groups_cache: family name -> (group name -> group id)
    pc,             \* "idle", or the await point of the call in flight
    op,             \* the current, or else the last, operation on the Resolver
    family_name,    \* its argument
    mc_groups,      \* the local mc_groups of query_family_multicast_groups
    result,         \* what the last completed call returned
    sent,           \* the requests the operation has handed to send_request
    streams,        \* for each of them, the items res.next() has yielded so far
    cache0,         \* cache when the operation started
    groups0,        \* groups_cache when the operation started
    resolved,       \* history: per family, the id query_family_id last returned
                    \* since the last clear_cache
    returned,       \* history: per family, the mapping query_family_multicast_groups
                    \* last returned since the last clear_cache
    reported,       \* history: per family, the family id that the last payload
                    \* message answering a by-name request for it has reported
    endless         \* whether the stream of the request in flight never ends

vars ==
    <<cache, groups_cache, pc, op, family_name, mc_groups, result, sent, streams,
      cache0, groups0, resolved, returned, reported, endless>>

\* Resolver::new()
Init ==
    /\ cache = EmptyMap
    /\ groups_cache = EmptyMap
    /\ pc = "idle"
    /\ op = "new"
    /\ family_name = ""
    /\ mc_groups = EmptyMap
    /\ result = NoResult
    /\ sent = <<>>
    /\ streams = <<>>
    /\ cache0 = EmptyMap
    /\ groups0 = EmptyMap
    /\ resolved = EmptyMap
    /\ returned = EmptyMap
    /\ reported = EmptyMap
    /\ endless = FALSE

\* a call on the idle Resolver begins
\* a resolver shared without the borrow: calls begin while another is in flight
Begin_Shared(name_of_op, name) ==
    /\ op' = name_of_op
    /\ family_name' = name
    /\ cache0' = cache
    /\ groups0' = groups_cache

Begin(name_of_op, name) ==
    /\ pc = "idle"
    /\ op' = name_of_op
    /\ family_name' = name
    /\ cache0' = cache
    /\ groups0' = groups_cache

\* the call returns r
Return(r) ==
    /\ pc' = "idle"
    /\ result' = r
    /\ endless' = FALSE

\* let mut res = handle.send_request(nlmsg)?, up to the first res.next().await
SendRequest(before, yielded, request, wait) ==
    /\ sent' = Append(before, request)
    /\ \/ /\ streams' = yielded
          /\ Return(Err(TransportError))
       \/ /\ streams' = Append(yielded, <<>>)
          /\ pc' = wait
          /\ result' = NoResult
          /\ endless' = FALSE

\* lines 109-127: the by-id request of query_family_multicast_groups
SendGroupsRequest(before, yielded, family_id) ==
    /\ mc_groups' = EmptyMap
    /\ SendRequest(before, yielded, ById(family_id), "groups_wait")

\* the items res has yielded so far
Stream == IF streams = <<>> THEN <<>> ELSE streams[Len(streams)]

\* res.next() yields item
Yielded(item) == [streams EXCEPT ![Len(streams)] = Append(@, item)]

\* what res.next().await may yield: an item, or None once the stream has ended; a
\* stream that never ends yields items and then stays pending
Yields(items) ==
    {Some(item) : item \in IF Len(Stream) < MaxStream THEN items ELSE {}}
        \cup (IF endless THEN {} ELSE {None})

\* the family ids the transport has reported, after it yields item for a by-name
\* request for name
Reported(name, item) ==
    IF CarriesFamilyId(item)
    THEN MapInsert(reported, name, CHOOSE id \in FamilyIds : ReportsFamilyId(item, id))
    ELSE reported

\* a success branch that forgets the insert
CacheInsert_Skipped(c, name, family_id) == c

\* a cache of one entry: the insert drops every other family
CacheInsert_Replace(c, name, family_id) == [x \in {name} |-> family_id]

\* self.cache.insert(family_name, family_id), line 82
CacheInsert(c, name, family_id) == MapInsert(c, name, family_id)

\* an insert moved into the loop: the cache follows mc_groups message by message
GroupsCacheInsert_Eager(g, name, mc, ended) == MapInsert(g, name, mc)

\* an insert that skips a family without groups
GroupsCacheInsert_NonEmpty(g, name, mc, ended) ==
    IF ended /\ mc # EmptyMap THEN MapInsert(g, name, mc) ELSE g

\* self.groups_cache.insert(family_name, mc_groups.clone()), line 187, reached only
\* when the stream has ended
GroupsCacheInsert(g, name, mc, ended) == IF ended THEN MapInsert(g, name, mc) ELSE g

(***************************************************************************)
(* Operations.                                                             *)
(***************************************************************************)
\* query_family_id up to its first await: a cache hit is ready at once, a miss
\* sends the by-name request
QueryFamilyId(name) ==
    /\ Begin("query_family_id", name)
    /\ UNCHANGED <<cache, groups_cache, mc_groups, returned, reported>>
    /\ LET hit == CacheGet(cache, name)
       IN  IF hit.some
           THEN /\ Return(OkId(hit.val))
                /\ resolved' = MapInsert(resolved, name, hit.val)
                /\ sent' = <<>>
                /\ streams' = <<>>
           ELSE /\ SendRequest(<<>>, <<>>, ByName(name), "id_wait")
                /\ UNCHANGED resolved

\* a group call that answers from groups_cache when it has the family
QueryFamilyMulticastGroups_Cached(name) ==
    /\ Begin("query_family_multicast_groups", name)
    /\ UNCHANGED <<cache, groups_cache, returned, reported>>
    /\ LET hit == CacheGet(cache, name)
           groups == GroupsCacheGet(groups_cache, name)
       IN  IF groups.some
           THEN /\ Return(OkGroups(groups.val))
                /\ mc_groups' = EmptyMap
                /\ sent' = <<>>
                /\ streams' = <<>>
                /\ UNCHANGED resolved
           ELSE IF hit.some
           THEN /\ resolved' = MapInsert(resolved, name, hit.val)
                /\ SendGroupsRequest(<<>>, <<>>, hit.val)
           ELSE /\ mc_groups' = EmptyMap
                /\ SendRequest(<<>>, <<>>, ByName(name), "id_wait")
                /\ UNCHANGED resolved

\* query_family_multicast_groups up to its first await: the family-id step first,
\* and on a cache hit the by-id request right after it
QueryFamilyMulticastGroups(name) ==
    /\ Begin("query_family_multicast_groups", name)
    /\ UNCHANGED <<cache, groups_cache, returned, reported>>
    /\ LET hit == CacheGet(cache, name)
       IN  IF hit.some
           THEN /\ resolved' = MapInsert(resolved, name, hit.val)
                /\ SendGroupsRequest(<<>>, <<>>, hit.val)
           ELSE /\ mc_groups' = EmptyMap
                /\ SendRequest(<<>>, <<>>, ByName(name), "id_wait")
                /\ UNCHANGED resolved

\* a loop that asks again when the stream has ended without an answer
FamilyIdNext_Retry(items) ==
    /\ pc = "id_wait"
    /\ UNCHANGED <<op, family_name, groups_cache, cache0, groups0, returned>>
    /\ \E next \in Yields(items) :
          IF ~next.some
          THEN /\ streams' = [streams EXCEPT ![Len(streams)] = <<>>]
               /\ UNCHANGED <<cache, pc, mc_groups, result, sent, resolved, reported,
                              endless>>
          ELSE LET step == QfiStep(next.val)
               IN  CASE step.tag = "Continue" ->
                           /\ streams' = Yielded(next.val)
                           /\ reported' = Reported(family_name, next.val)
                           /\ UNCHANGED <<cache, pc, mc_groups, result, sent, resolved,
                                          endless>>
                     [] step.tag = "Err" ->
                           /\ streams' = Yielded(next.val)
                           /\ reported' = Reported(family_name, next.val)
                           /\ Return(Err(step.err))
                           /\ UNCHANGED <<cache, mc_groups, sent, resolved>>
                     [] step.tag = "Ok" ->
                           /\ reported' = Reported(family_name, next.val)
                           /\ cache' = CacheInsert(cache, family_name, step.id)
                           /\ resolved' = MapInsert(resolved, family_name, step.id)
                           /\ IF op = "query_family_id"
                              THEN /\ streams' = Yielded(next.val)
                                   /\ Return(OkId(step.id))
                                   /\ UNCHANGED <<mc_groups, sent>>
                              ELSE SendGroupsRequest(sent, Yielded(next.val), step.id)

\* while let Some(result) = res.next().await, in query_family_id (lines 61-90),
\* called directly or as the first step of query_family_multicast_groups
FamilyIdNext(items) ==
    /\ pc = "id_wait"
    /\ UNCHANGED <<op, family_name, groups_cache, cache0, groups0, returned>>
    /\ \E next \in Yields(items) :
          IF ~next.some
          THEN /\ Return(Err(NoMessageReceived))
               /\ UNCHANGED <<cache, mc_groups, sent, streams, resolved, reported>>
          ELSE LET step == QfiStep(next.val)
               IN  CASE step.tag = "Continue" ->
                           /\ streams' = Yielded(next.val)
                           /\ reported' = Reported(family_name, next.val)
                           /\ UNCHANGED <<cache, pc, mc_groups, result, sent, resolved,
                                          endless>>
                     [] step.tag = "Err" ->
                           /\ streams' = Yielded(next.val)
                           /\ reported' = Reported(family_name, next.val)
                           /\ Return(Err(step.err))
                           /\ UNCHANGED <<cache, mc_groups, sent, resolved>>
                     [] step.tag = "Ok" ->
                           /\ reported' = Reported(family_name, next.val)
                           /\ cache' = CacheInsert(cache, family_name, step.id)
                           /\ resolved' = MapInsert(resolved, family_name, step.id)
                           /\ IF op = "query_family_id"
                              THEN /\ streams' = Yielded(next.val)
                                   /\ Return(OkId(step.id))
                                   /\ UNCHANGED <<mc_groups, sent>>
                              ELSE SendGroupsRequest(sent, Yielded(next.val), step.id)

\* while let Some(result) = res.next().await, in query_family_multicast_groups
\* (lines 131-191)
GroupsNext(items) ==
    /\ pc = "groups_wait"
    /\ UNCHANGED <<op, family_name, cache, cache0, groups0, sent, resolved, reported>>
    /\ \E next \in Yields(items) :
          IF ~next.some
          THEN /\ groups_cache' = GroupsCacheInsert(groups_cache, family_name, mc_groups, TRUE)
               /\ Return(OkGroups(mc_groups))
               /\ returned' = MapInsert(returned, family_name, mc_groups)
               /\ UNCHANGED <<mc_groups, streams>>
          ELSE LET step == GroupsStep(mc_groups, next.val)
               IN  /\ streams' = Yielded(next.val)
                   /\ UNCHANGED returned
                   /\ groups_cache' = GroupsCacheInsert(groups_cache, family_name, step.mc, FALSE)
                   /\ IF step.tag = "Err"
                      THEN /\ Return(Err(step.err))
                           /\ UNCHANGED mc_groups
                      ELSE /\ mc_groups' = step.mc
                           /\ UNCHANGED <<pc, result, endless>>

\* a clear_cache that empties the id cache only
ClearCache_IdsOnly ==
    /\ Begin("clear_cache", "")
    /\ cache' = EmptyMap
    /\ groups_cache' = groups_cache
    /\ Return(NoResult)
    /\ mc_groups' = EmptyMap
    /\ sent' = <<>>
    /\ streams' = <<>>
    /\ resolved' = EmptyMap
    /\ returned' = EmptyMap
    /\ UNCHANGED reported

\* clear_cache
ClearCache ==
    /\ Begin("clear_cache", "")
    /\ cache' = EmptyMap
    /\ groups_cache' = EmptyMap
    /\ Return(NoResult)
    /\ mc_groups' = EmptyMap
    /\ sent' = <<>>
    /\ streams' = <<>>
    /\ resolved' = EmptyMap
    /\ returned' = EmptyMap
    /\ UNCHANGED reported

\* get_cache_by_name(&self, family_name): a copy of the cached id, if any
GetCacheByName(name) ==
    /\ Begin("get_cache_by_name", name)
    /\ LET hit == CacheGet(cache, name)
       IN  Return(IF hit.some THEN SomeId(hit.val) ELSE NoEntry)
    /\ mc_groups' = EmptyMap
    /\ sent' = <<>>
    /\ streams' = <<>>
    /\ UNCHANGED <<cache, groups_cache, resolved, returned, reported>>

\* get_groups_cache_by_name(&self, family_name): a clone of the cached groups, if any
GetGroupsCacheByName(name) ==
    /\ Begin("get_groups_cache_by_name", name)
    /\ LET hit == GroupsCacheGet(groups_cache, name)
       IN  Return(IF hit.some THEN SomeGroups(hit.val) ELSE NoEntry)
    /\ mc_groups' = EmptyMap
    /\ sent' = <<>>
    /\ streams' = <<>>
    /\ UNCHANGED <<cache, groups_cache, resolved, returned, reported>>

\* the stream that res.next().await is waiting on is one that never ends
StreamNeverEnds ==
    /\ pc # "idle"
    /\ ~endless
    /\ endless' = TRUE
    /\ UNCHANGED <<cache, groups_cache, pc, op, family_name, mc_groups, result, sent,
                   streams, cache0, groups0, resolved, returned, reported>>

\* the caller drops the future of the call in flight at an await point
DropFuture ==
    /\ pc # "idle"
    /\ pc' = "idle"
    /\ op' = "dropped"
    /\ result' = NoResult
    /\ mc_groups' = EmptyMap
    /\ endless' = FALSE
    /\ UNCHANGED <<cache, groups_cache, family_name, sent, streams, cache0, groups0,
                   resolved, returned, reported>>

Next ==
    \/ \E name \in FamilyNames : QueryFamilyId(name)
    \/ \E name \in FamilyNames : QueryFamilyMulticastGroups(name)
    \/ FamilyIdNext(NameReplyItems)
    \/ GroupsNext(IdReplyItems)
    \/ ClearCache
    \/ \E name \in FamilyNames : GetCacheByName(name)
    \/ \E name \in FamilyNames : GetGroupsCacheByName(name)
    \/ StreamNeverEnds
    \/ DropFuture

Spec == Init /\ [][Next]_vars

(***************************************************************************)
(* The resolver over a transport whose streams all end.  The task that     *)
(* awaits res.next() is woken whenever the stream has an item or its end   *)
(* ready, and a stream that ends always has one of the two in the end: a   *)
(* call in flight that is not dropped takes its next step.                 *)
(***************************************************************************)
NextFinite ==
    \/ \E name \in FamilyNames : QueryFamilyId(name)
    \/ \E name \in FamilyNames : QueryFamilyMulticastGroups(name)
    \/ FamilyIdNext(NameReplyItems)
    \/ GroupsNext(IdReplyItems)
    \/ ClearCache
    \/ \E name \in FamilyNames : GetCacheByName(name)
    \/ \E name \in FamilyNames : GetGroupsCacheByName(name)
    \/ DropFuture

SpecFinite ==
    /\ Init
    /\ [][NextFinite]_vars
    /\ WF_vars(FamilyIdNext(NameReplyItems))
    /\ WF_vars(GroupsNext(IdReplyItems))

(***************************************************************************)
(* The group resolution alone: the first query_family_multicast_groups of  *)
(* a new Resolver, for a family the transport reports as 26, with the      *)
(* by-id request answered by groups in full.                               *)
(***************************************************************************)
NextGroups ==
    \/ groups_cache = EmptyMap /\ QueryFamilyMulticastGroups("devlink")
    \/ FamilyIdNext({InnerMessage(<<FamilyIdAttr(26)>>)})
    \/ GroupsNext(GroupReplyItems)

SpecGroups == Init /\ [][NextGroups]_vars

(***************************************************************************)
(* Properties.                                                             *)
(***************************************************************************)
\* a call has returned (a dropped future returns nothing)
Completed(o) == pc = "idle" /\ op = o /\ result.tag # "None"

\* the by-name request was answered by a stream, whose last item reports id
MissReported(id) ==
    /\ sent # <<>>
    /\ sent[1] = ByName(family_name)
    /\ streams # <<>>
    /\ streams[1] # <<>>
    /\ ReportsFamilyId(streams[1][Len(streams[1])], id)

\* C1: whenever query_family_id(name) returns Ok(id), the id cache holds name -> id,
\* so that get_cache_by_name(name) returns Some(id)
C1_OkIsCached ==
    (Completed("query_family_id") /\ result.tag = "OkId")
        => CacheGet(cache, family_name) = Some(result.id)

\* query_family_id returned Ok after a cache miss
C1_Witness ==
    /\ Completed("query_family_id")
    /\ result.tag = "OkId"
    /\ family_name \notin DOMAIN cache0
    /\ MissReported(result.id)

\* C2: while name counts as resolved (query_family_id(name) has returned Ok(id) and
\* clear_cache has not run since), a call of query_family_id(name) completes in the
\* step that makes it, with Ok of the same id and without a request
C2_HitIsSilent ==
    [][\A name \in DOMAIN resolved :
          (pc = "idle" /\ op' = "query_family_id" /\ family_name' = name)
              => /\ pc' = "idle"
                 /\ result' = OkId(resolved[name])
                 /\ sent' = <<>>
                 /\ streams' = <<>>]_vars

\* a second query_family_id of a family returned from the cache
C2_Witness ==
    /\ Completed("query_family_id")
    /\ family_name \in DOMAIN cache0
    /\ result = OkId(cache0[family_name])
    /\ sent = <<>>

Failed ==
    /\ \/ Completed("query_family_id")
       \/ Completed("query_family_multicast_groups")
    /\ result.tag = "Err"

\* the family-id step of the group call missed the cache, succeeded and cached the
\* id that the by-id request then carried
IdStepCached ==
    /\ op = "query_family_multicast_groups"
    /\ family_name \notin DOMAIN cache0
    /\ Len(sent) = 2
    /\ sent[2].attr = "FamilyId"
    /\ MissReported(sent[2].id)
    /\ cache = MapInsert(cache0, family_name, sent[2].id)

\* C4, as claimed: a resolution call that returns an error leaves both caches as
\* they were when it started
C4_FailureWritesNothing == Failed => (cache = cache0 /\ groups_cache = groups0)

\* C4, amended: a failing call leaves the groups cache as it was, and the id cache
\* too, except that a group call whose family-id step succeeded on a cache miss has
\* added name -> id before its by-id request failed
C4_FailureWritesNoGroups ==
    Failed => /\ groups_cache = groups0
              /\ cache = cache0 \/ IdStepCached
              /\ op = "query_family_id" => cache = cache0

\* a group call failed on the second item of its by-id stream, after a payload
\* message with a complete group
C4_Witness ==
    /\ Failed
    /\ op = "query_family_multicast_groups"
    /\ IdStepCached
    /\ Len(streams) = 2
    /\ Len(streams[2]) = 2
    /\ streams[2][1] = InnerMessage(<<McastGroupsAttr(<<<<GrpName("config"), GrpId(1)>>>>)>>)

\* the error query_family_id returns for what the transport did with its request:
\* the items yielded, all but the last of them neither payload nor error
IdStepErrors(items) ==
    IF items = <<>> THEN {NoMessageReceived}
    ELSE LET last == items[Len(items)]
         IN  CASE last.kind = "Error" -> {NetlinkError(last.code)}
               [] last.kind = "DecodeError" -> {DecodeFailure}
               [] last.kind = "InnerMessage" -> {AttributeNotFound("CTRL_ATTR_FAMILY_ID")}
               [] OTHER -> {NoMessageReceived}

\* the by-name request failed to be sent, or its stream yielded no payload message
\* with a family id
IdStepFailed ==
    /\ family_name \notin DOMAIN cache0
    /\ sent # <<>>
    /\ sent[1] = ByName(family_name)
    /\ \A i \in 1..Len(streams) : \A j \in 1..Len(streams[i]) :
          ~CarriesFamilyId(streams[i][j])

\* the error of a failed family-id step
IdStepError ==
    IF streams = <<>> THEN {TransportError} ELSE IdStepErrors(streams[1])

\* C5: query_family_multicast_groups sends no by-id request before the family id is
\* known, and when the family-id step fails it returns the error query_family_id
\* returns for the same answer, with the by-name request the only one sent and
\* both caches as they were
C5_IdStepFirst ==
    /\ (op = "query_family_multicast_groups" /\ sent # <<>>)
          => IF family_name \in DOMAIN cache0
             THEN sent = <<ById(cache0[family_name])>>
             ELSE /\ sent[1] = ByName(family_name)
                  /\ Len(sent) = 2 => (sent[2].attr = "FamilyId" /\ MissReported(sent[2].id))
    /\ \A o \in {"query_family_id", "query_family_multicast_groups"} :
          (Completed(o) /\ IdStepFailed)
              => /\ result.tag = "Err"
                 /\ result.err \in IdStepError
                 /\ sent = <<ByName(family_name)>>
                 /\ cache = cache0
                 /\ groups_cache = groups0

\* a group call returned the protocol error of its family-id step
C5_Witness ==
    /\ Completed("query_family_multicast_groups")
    /\ IdStepFailed
    /\ streams = <<<<DoneMessage, ErrorMessage(-2)>>>>
    /\ result = Err(NetlinkError(-2))

\* the id cache while the latest request of the operation is being answered
CacheAtRequest == IF Len(sent) = 2 THEN MapInsert(cache0, family_name, sent[2].id) ELSE cache0

\* C6: when the first item of a response stream is a protocol error, the call has
\* returned that error, the stream has yielded nothing more and the caches are as
\* they were when the request was sent
C6_ErrorFirst ==
    (Stream # <<>> /\ Stream[1].kind = "Error")
        => /\ Len(Stream) = 1
           /\ pc = "idle"
           /\ op \in {"query_family_id", "query_family_multicast_groups"}
           /\ result = Err(NetlinkError(Stream[1].code))
           /\ cache = CacheAtRequest
           /\ groups_cache = groups0

\* a by-id stream that began with a protocol error
C6_Witness ==
    /\ Len(sent) = 2
    /\ Len(streams) = 2
    /\ streams[2] = <<ErrorMessage(-1)>>
    /\ result = Err(NetlinkError(-1))

\* C7: after clear_cache both lookups return None for every name, a second
\* clear_cache changes nothing, and the next query_family_id sends its by-name
\* request
C7_ClearEmpties ==
    [][/\ (op' = "clear_cache" /\ pc' = "idle")
             => \A name \in FamilyNames :
                   /\ CacheGet(cache', name) = None
                   /\ ~GroupsCacheGet(groups_cache', name).some
       /\ (op = "clear_cache" /\ op' = "clear_cache")
             => (cache' = cache /\ groups_cache' = groups_cache)
       /\ (op = "clear_cache" /\ op' = "query_family_id")
             => (sent' = <<ByName(family_name')>> /\ result'.tag # "OkId")]_vars

\* clear_cache ran on a Resolver that held an id and a group mapping
C7_Witness ==
    /\ op = "clear_cache"
    /\ cache0 # EmptyMap
    /\ groups0 # EmptyMap
    /\ cache = EmptyMap
    /\ groups_cache = EmptyMap

\* C9: the groups cache holds, for each family, exactly the mapping that the last
\* successful query_family_multicast_groups of that family has returned since the
\* last clear_cache, an empty mapping included, and a failing call leaves it as it was
C9_GroupsCacheIsLastReturned ==
    /\ groups_cache = returned
    /\ (Completed("query_family_multicast_groups") /\ result.tag = "OkGroups")
          => groups_cache = MapInsert(groups0, family_name, result.groups)
    /\ (pc # "idle" \/ Failed \/ op = "dropped") => groups_cache = groups0

\* a successful group call replaced a cached mapping by the empty mapping
C9_Witness ==
    /\ Completed("query_family_multicast_groups")
    /\ result = OkGroups(EmptyMap)
    /\ family_name \in DOMAIN groups0
    /\ groups0[family_name] # EmptyMap
    /\ groups_cache[family_name] = EmptyMap

\* C10: when query_family_id has missed the cache and its stream has ended after
\* yielding nothing but messages that are neither payload nor error, the call
\* has failed with NoMessageReceived and the id cache is as it was
C10_NoMessageReceived ==
    (/\ Completed("query_family_id")
     /\ family_name \notin DOMAIN cache0
     /\ streams # <<>>
     /\ \A i \in 1..Len(Stream) : Stream[i].kind = "Done")
        => (result = Err(NoMessageReceived) /\ cache = cache0)

\* the stream ended after one Done message
C10_Witness ==
    /\ Completed("query_family_id")
    /\ streams = <<<<DoneMessage>>>>
    /\ result = Err(NoMessageReceived)

\* where the groups of a stream are: item, attribute, group
GroupPositions(items) ==
    UNION {UNION {{<<i, j, k>> : k \in 1..Len(items[i].nlas[j].groups)} :
                     j \in {x \in 1..Len(items[i].nlas) :
                              items[i].nlas[x].type = "McastGroups"}} :
              i \in {x \in 1..Len(items) : items[x].kind = "InnerMessage"}}

GroupAt(items, p) == items[p[1]].nlas[p[2]].groups[p[3]]

\* delivery order
NotAfter(p, q) ==
    \/ p[1] < q[1]
    \/ p[1] = q[1] /\ p[2] < q[2]
    \/ p[1] = q[1] /\ p[2] = q[2] /\ p[3] <= q[3]

\* the group has the name n and some id
CompleteAs(group, n) ==
    /\ \E x \in 1..Len(group) : group[x] = GrpName(n)
    /\ \E x \in 1..Len(group) : group[x].type = "Id"

\* the id of a group that has one
IdOf(group) == (CHOOSE a \in {group[x] : x \in 1..Len(group)} : a.type = "Id").id

\* the groups of a stream that have both a name and an id, the last id of each name
CompleteGroups(items) ==
    LET named(n) == {p \in GroupPositions(items) : CompleteAs(GroupAt(items, p), n)}
    IN  [n \in {m \in GroupNames : named(m) # {}} |->
            IdOf(GroupAt(items, CHOOSE p \in named(n) : \A q \in named(n) : NotAfter(q, p)))]

\* C8: the mapping a successful query_family_multicast_groups returns holds exactly
\* the groups of the stream's payload messages that have both a name and an id,
\* each name with the id of its last such group in delivery order
C8_ExactlyCompleteGroups ==
    (Completed("query_family_multicast_groups") /\ result.tag = "OkGroups")
        => result.groups = CompleteGroups(Stream)

\* a group with name and id, a group with a name only, then the same name with
\* another id in a later message
C8_Witness ==
    /\ Completed("query_family_multicast_groups")
    /\ Stream = <<InnerMessage(<<McastGroupsAttr(<<<<GrpName("config"), GrpId(1)>>,
                                                    <<GrpName("config")>>>>)>>),
                  InnerMessage(<<McastGroupsAttr(<<<<GrpId(2), GrpName("config")>>>>),
                                 McastGroupsAttr(<<<<GrpName("config")>>>>)>>)>>
    /\ result = OkGroups([n \in {"config"} |-> 2])

\* a payload message without a family-id attribute
LacksFamilyId(item) == item.kind = "InnerMessage" /\ ~CarriesFamilyId(item)

\* the call in flight or just returned missed the id cache and had its by-name
\* request answered by a stream
NameStreamed ==
    /\ op \in {"query_family_id", "query_family_multicast_groups"}
    /\ sent # <<>>
    /\ sent[1] = ByName(family_name)
    /\ streams # <<>>

\* C11: on an id-cache miss, a payload message without a family-id attribute in the
\* answer to the by-name request makes the call fail with
\* AttributeNotFound("CTRL_ATTR_FAMILY_ID") at once, the id cache being what it was
\* before the call
C11_AttributeNotFound ==
    (/\ NameStreamed
     /\ \E i \in 1..Len(streams[1]) : LacksFamilyId(streams[1][i]))
        => /\ pc = "idle"
           /\ result = Err(AttributeNotFound("CTRL_ATTR_FAMILY_ID"))
           /\ LacksFamilyId(streams[1][Len(streams[1])])
           /\ Len(sent) = 1
           /\ cache = cache0

\* query_family_id, with other families cached, has failed on a payload message
\* that carries multicast groups but no family id
C11_Witness ==
    /\ Completed("query_family_id")
    /\ cache0 # EmptyMap
    /\ streams = <<<<DoneMessage, InnerMessage(<<McastGroupsAttr(<<>>)>>)>>>>
    /\ result = Err(AttributeNotFound("CTRL_ATTR_FAMILY_ID"))

\* the entries of the map before are all in the map after, unchanged but for name
KeepsEntries(before, after, name) ==
    \A m \in DOMAIN before :
        /\ m \in DOMAIN after
        /\ m # name => after[m] = before[m]

\* C12: the lookups leave both caches as they are; a step of any call but
\* clear_cache removes no entry, changes no id, and neither adds nor changes an
\* entry of a family other than the one the call names; an id entry appears only
\* where the family-id resolution succeeds with that id, a groups entry only where
\* query_family_multicast_groups returns Ok with that mapping
C12_Frame ==
    [][/\ op' \in {"get_cache_by_name", "get_groups_cache_by_name", "dropped"}
            => cache' = cache /\ groups_cache' = groups_cache
       /\ op' # "clear_cache"
            => /\ KeepsEntries(cache, cache', "")
               /\ KeepsEntries(groups_cache, groups_cache', family_name')
               /\ DOMAIN cache' \subseteq DOMAIN cache \cup {family_name'}
               /\ DOMAIN groups_cache' \subseteq DOMAIN groups_cache \cup {family_name'}
               /\ cache' # cache
                    => /\ pc = "id_wait"
                       /\ family_name' = family_name
                       /\ \E id \in FamilyIds :
                             /\ ReportsFamilyId(streams'[1][Len(streams'[1])], id)
                             /\ cache' = MapInsert(cache, family_name, id)
                             /\ resolved' = MapInsert(resolved, family_name, id)
                             /\ op = "query_family_id" => result' = OkId(id)
               /\ groups_cache' # groups_cache
                    => /\ pc = "groups_wait"
                       /\ op = "query_family_multicast_groups"
                       /\ family_name' = family_name
                       /\ result'.tag = "OkGroups"
                       /\ groups_cache'
                            = MapInsert(groups_cache, family_name, result'.groups)]_vars

\* a lookup has found the groups of one family while both families are cached
C12_Witness ==
    /\ Completed("get_groups_cache_by_name")
    /\ result.tag = "SomeGroups"
    /\ DOMAIN cache = FamilyNames
    /\ DOMAIN groups_cache = FamilyNames

\* the step consumes an item of the answer to the by-name request
NameItemConsumed == pc = "id_wait" /\ streams'[1] # streams[1]

\* the item that the step has consumed
NameItem == streams'[1][Len(streams'[1])]

\* C13, as claimed: a payload message in which no family-id attribute is found does
\* not end the call; the resolver goes on to the next item of the stream
C13_PayloadWithoutIdContinues ==
    [][(NameItemConsumed /\ LacksFamilyId(NameItem)) => pc' = "id_wait"]_vars

\* C13, amended: the resolver goes on to the next item exactly after a message
\* that is neither a payload nor an error; a payload message without a family-id
\* attribute ends the call with AttributeNotFound, so that no later payload message
\* is read
C13_PayloadWithoutIdEndsCall ==
    [][NameItemConsumed
         => /\ pc' = "id_wait" <=> NameItem.kind = "Done"
            /\ LacksFamilyId(NameItem)
                 => /\ pc' = "idle"
                    /\ result' = Err(AttributeNotFound("CTRL_ATTR_FAMILY_ID"))
                    /\ cache' = cache]_vars

\* the group call has gone past a message that is no payload and has then failed
\* on a payload message without attributes
C13_Witness ==
    /\ Completed("query_family_multicast_groups")
    /\ sent = <<ByName(family_name)>>
    /\ streams = <<<<DoneMessage, InnerMessage(<<>>)>>>>
    /\ result = Err(AttributeNotFound("CTRL_ATTR_FAMILY_ID"))

\* C14: on an id-cache miss the items of the answer are taken in the order of their
\* delivery, and the first payload message that carries a family id ends the
\* family-id resolution: it is the last item taken from the stream, only messages
\* that are no payload and no error came before it, and the first family-id
\* attribute of it is the id cached and returned
C14_FirstFamilyIdEndsCall ==
    (/\ NameStreamed
     /\ \E i \in 1..Len(streams[1]) : CarriesFamilyId(streams[1][i]))
        => LET n == Len(streams[1])
           IN  /\ CarriesFamilyId(streams[1][n])
               /\ \A j \in 1..(n - 1) : streams[1][j].kind = "Done"
               /\ pc # "id_wait"
               /\ \E id \in FamilyIds :
                     /\ ReportsFamilyId(streams[1][n], id)
                     /\ cache = MapInsert(cache0, family_name, id)
                     /\ op = "query_family_id"
                          => pc = "idle" /\ result = OkId(id) /\ Len(sent) = 1

\* query_family_id has gone past a message that is no payload and has returned the
\* first of the two family ids of the payload message that followed
C14_Witness ==
    /\ Completed("query_family_id")
    /\ streams
         = <<<<DoneMessage,
               InnerMessage(<<FamilyIdAttr(26), FamilyIdAttr(GENL_ID_CTRL)>>)>>>>
    /\ result = OkId(26)
    /\ cache = MapInsert(cache0, family_name, 26)

\* C15: query_family_multicast_groups sends the by-id request exactly once when its
\* family-id step succeeds, with the id of that step, whether or not groups_cache
\* has the family: one request in all on an id-cache hit, two on a miss whose
\* by-name answer carries a family id, and never none
C15_ByIdRequestAlways ==
    op = "query_family_multicast_groups"
        => IF family_name \in DOMAIN cache0
           THEN sent = <<ById(cache0[family_name])>>
           ELSE /\ sent # <<>>
                /\ sent[1] = ByName(family_name)
                /\ Len(sent) \in {1, 2}
                /\ Len(sent) = 2
                     <=> /\ streams # <<>>
                         /\ streams[1] # <<>>
                         /\ CarriesFamilyId(streams[1][Len(streams[1])])
                /\ Len(sent) = 2
                     => /\ ReportsFamilyId(streams[1][Len(streams[1])], sent[2].id)
                        /\ sent[2] = ById(sent[2].id)

\* a group call for a family that groups_cache already had has sent its by-id
\* request and returned the mapping of the new answer
C15_Witness ==
    /\ Completed("query_family_multicast_groups")
    /\ family_name \in DOMAIN groups0
    /\ sent = <<ById(cache0[family_name])>>
    /\ result.tag = "OkGroups"
    /\ Stream # <<>>

\* C16: whenever the id cache holds name -> id, id is the family id of the last
\* payload message with which the transport has answered a by-name request of
\* this resolver for name
C16_CacheIsLastReported ==
    \A name \in DOMAIN cache :
        /\ name \in DOMAIN reported
        /\ cache[name] = reported[name]

\* after a clear_cache both families have been reported, one of them again: the
\* cache holds that one alone, with the id of the last report, and answers the
\* next query_family_id from it
C16_Witness ==
    /\ Completed("query_family_id")
    /\ sent = <<>>
    /\ DOMAIN reported = FamilyNames
    /\ DOMAIN cache = {"devlink"}
    /\ result = OkId(reported["devlink"])
    /\ reported["nlctrl"] = reported["devlink"]

\* C17: over streams that end, every query_family_id and every
\* query_family_multicast_groups in flight comes to its end: it returns Ok or an
\* error, unless its caller drops it
C17_CallCompletes ==
    (pc # "idle")
        ~> (/\ pc = "idle"
            /\ \/ op = "dropped"
               \/ /\ op \in {"query_family_id", "query_family_multicast_groups"}
                  /\ result.tag \in {"OkId", "OkGroups", "Err"})

\* a group call has read both of its streams to their bound and to their end, and
\* has returned
C17_Witness ==
    /\ Completed("query_family_multicast_groups")
    /\ Len(streams) = 2
    /\ Len(streams[1]) = MaxStream
    /\ Len(streams[2]) = MaxStream
    /\ result.tag = "OkGroups"

\* the step ends a call in flight on a stream that never ends, by a return
EndlessReturns == endless /\ pc # "idle" /\ pc' = "idle" /\ op' # "dropped"

\* C18, as claimed: over a stream that never ends, whether it keeps delivering
\* items or stalls, query_family_id and query_family_multicast_groups never return
C18_EndlessNeverReturns == [][~EndlessReturns]_vars

\* C18, amended: over a stream that never ends a call returns only in the step in
\* which it takes an item that ends its loop early: a payload message or an error
\* for the family-id resolution, an error for the groups; it never returns while
\* the stream stalls or delivers other items, so never with NoMessageReceived and
\* never with the groups
C18_EndlessReturnsOnlyEarly ==
    [][EndlessReturns
         => /\ streams' # streams
            /\ LET taken == streams'[Len(streams)]
                   last == taken[Len(taken)]
               IN  IF pc = "id_wait"
                   THEN /\ last.kind # "Done"
                        /\ result' # Err(NoMessageReceived)
                   ELSE /\ last.kind \in {"Error", "DecodeError"}
                        /\ result'.tag = "Err"
                        /\ groups_cache' = groups_cache]_vars

\* the answer to the by-id request never ends: it has delivered payload messages
\* up to the bound, the call has collected their groups and is still waiting
C18_Witness ==
    /\ endless
    /\ pc = "groups_wait"
    /\ Len(Stream) = MaxStream
    /\ \A i \in 1..MaxStream : Stream[i].kind = "InnerMessage"
    /\ mc_groups # EmptyMap

C20_GroupsWithinIds == DOMAIN groups_cache \subseteq DOMAIN cache

\* a dropped call has left the id of one more family than groups_cache has
C20_Witness ==
    /\ op = "dropped"
    /\ groups_cache # EmptyMap
    /\ DOMAIN groups_cache # DOMAIN cache
    /\ cache # cache0

====
